---- MODULE Spec2Model ----
(***************************************************************************)
(* ConnectionBridge (integration_testing/connection_bridge.go): a relay    *)
(* between two nodes A and B made of four peer legs, two listeners, the    *)
(* paused / disabled flags, a wait group and four routeTraffic goroutines. *)
(*                                                                         *)
(* Threads: thread 0 is the test driver that calls Start, Disconnect and   *)
(* Restart and assigns bridge.paused; threads 1..MaxRouters are the        *)
(* routeTraffic goroutines, which run Restart (Disconnect, then Start)     *)
(* themselves after an I/O error.  The nodes and the network are the       *)
(* environment: they answer handshakes, dial listeners, send messages and  *)
(* may close a socket.                                                     *)
(***************************************************************************)
EXTENDS Naturals, Sequences, FiniteSets

\* ------------------------------------------------------------------ bounds
MaxStarts == 2      \* Start invocations (each creates listeners, legs, routers)
MaxMsgs   == 2      \* messages the nodes send into the bridge
MaxCloses == 1      \* sockets closed from outside the bridge
MaxPauses == 1      \* times the driver sets paused to TRUE
MaxNonce  == 2      \* handshake nonces are drawn from 1..MaxNonce

RoutersPerStart == 4
MaxRouters == RoutersPerStart * MaxStarts

Driver   == 0
Routers  == 1..MaxRouters
Threads  == {Driver} \cup Routers
Nodes    == {"A", "B"}
Nonces   == 1..MaxNonce
Nil      == 0       \* a nil *lib.Peer / nil net.Listener

VARIABLES
    \* fields of ConnectionBridge
    connectionInboundA, connectionOutboundA, outboundListenerA,
    connectionInboundB, connectionOutboundB, outboundListenerB,
    paused, disabled, waitGroup, newPeerChan,
    \* the heap: every lib.Peer and net.Listener ever created, and the accept
    \* goroutines of createOutboundConnection that have not finished
    legs, listeners, acceptors,
    \* threads: position, outermost call, Start invocation, router arguments
    pc, call, sid, source, destination, inMsg,
    \* bookkeeping: Start invocations, routers launched, messages sent,
    \* sockets closed from outside, pauses, the driver's last return, a panic
    starts, nrouters, sent, closes, pauses, ret, crashed

bridgeVars == <<connectionInboundA, connectionOutboundA, outboundListenerA,
                connectionInboundB, connectionOutboundB, outboundListenerB,
                paused, disabled, waitGroup, newPeerChan>>
heapVars   == <<legs, listeners, acceptors>>
threadVars == <<pc, call, sid, source, destination, inMsg>>
countVars  == <<starts, nrouters, sent, closes, pauses, ret, crashed>>
vars       == <<bridgeVars, heapVars, threadVars, countVars>>

\* ---------------------------------------------------------------- messages
Kinds == {"Addr", "GetAddr", "Ping"}
NoMsg == [kind |-> "none", id |-> 0, paused |-> FALSE]
ErrMsg == [kind |-> "error", id |-> 0, paused |-> FALSE]

\* Faulty variant: only the GetAddr case skips the write; Addr falls to the default.
IsPeerDiscoveryGetAddrOnly(kind) == kind = "GetAddr"

\* The switch of routeTraffic: case *lib.MsgDeSoAddr (empty body, the loop goes
\* on) and case *lib.MsgDeSoGetAddr (continue) are not forwarded.
IsPeerDiscovery(kind) == kind \in {"Addr", "GetAddr"}

IsPrefix(s, t) == Len(s) <= Len(t) /\ SubSeq(t, 1, Len(s)) = s

\* ---------------------------------------------------------------- the heap
\* lib.NewPeer(conn, ...): a leg facing `node`, created by Start invocation
\* `s`; an outbound leg remembers the listener it was accepted on.
NewPeer(node, role, s, l) ==
    [node |-> node, role |-> role, sid |-> s, lst |-> l,
     closed |-> FALSE, VersionNegotiated |-> FALSE,
     VersionNonceSent |-> 0, VersionNonceReceived |-> 0,
     versionOf |-> "none", reply1 |-> "none", reply2 |-> "none", goodNonce |-> FALSE,
     inbox |-> <<>>, recvd |-> <<>>, outbox |-> <<>>]

LegIds == 1..Len(legs)

\* lib.Peer.Disconnect(): closes the socket; later reads and writes fail.
PeerDisconnect(ls, l) == [ls EXCEPT ![l].closed = TRUE]

RECURSIVE PeerDisconnectAll(_, _)
PeerDisconnectAll(ls, ids) ==
    IF ids = <<>> THEN ls
    ELSE PeerDisconnectAll(PeerDisconnect(ls, Head(ids)), Tail(ids))

Init ==
    \* NewConnectionBridge: disabled false, an unbuffered newPeerChan, nil legs
    /\ connectionInboundA = Nil /\ connectionOutboundA = Nil /\ outboundListenerA = Nil
    /\ connectionInboundB = Nil /\ connectionOutboundB = Nil /\ outboundListenerB = Nil
    /\ paused = FALSE /\ disabled = FALSE /\ waitGroup = 0 /\ newPeerChan = {}
    /\ legs = <<>> /\ listeners = <<>> /\ acceptors = {}
    /\ pc = [t \in Threads |-> IF t = Driver THEN "idle" ELSE "none"]
    /\ call = [t \in Threads |-> "none"]
    /\ sid = [t \in Threads |-> 0]
    /\ source = [t \in Threads |-> Nil]
    /\ destination = [t \in Threads |-> Nil]
    /\ inMsg = [t \in Threads |-> NoMsg]
    /\ starts = 0 /\ nrouters = 0 /\ sent = 0 /\ closes = 0 /\ pauses = 0
    /\ ret = [op |-> "none", sid |-> 0]
    /\ crashed = FALSE

\* ------------------------------------------------------------ routeTraffic
\* One goroutine per directed path.  Each step below is one access to shared
\* state (a flag, the wait group, a leg), in the order of the code.

\* bridge.waitGroup.Add(1), the first statement inside the goroutine.
routeTrafficAdd(r) ==
    /\ ~crashed /\ pc[r] = "spawned"
    /\ waitGroup' = waitGroup + 1
    /\ pc' = [pc EXCEPT ![r] = "loop"]
    /\ UNCHANGED <<connectionInboundA, connectionOutboundA, outboundListenerA,
                   connectionInboundB, connectionOutboundB, outboundListenerB,
                   paused, disabled, newPeerChan>>
    /\ UNCHANGED <<heapVars, call, sid, source, destination, inMsg, countVars>>

\* if bridge.disabled { break }, then waitGroup.Done() after the loop.
routeTrafficLoop(r) ==
    /\ ~crashed /\ pc[r] = "loop"
    /\ IF disabled
       THEN /\ waitGroup' = waitGroup - 1
            /\ pc' = [pc EXCEPT ![r] = "exited"]
       ELSE /\ waitGroup' = waitGroup
            /\ pc' = [pc EXCEPT ![r] = "paused?"]
    /\ UNCHANGED <<connectionInboundA, connectionOutboundA, outboundListenerA,
                   connectionInboundB, connectionOutboundB, outboundListenerB,
                   paused, disabled, newPeerChan>>
    /\ UNCHANGED <<heapVars, call, sid, source, destination, inMsg, countVars>>

\* Faulty variant: a paused router leaves the loop (break instead of continue).
PausedBranchBreak(p) == IF p THEN "exited" ELSE "read"

\* Faulty variant: a paused router treats the pause as a failure and restarts.
PausedBranchRestart(p) == IF p THEN "d_check" ELSE "read"

\* Where the paused check sends the router: back to the top of the loop after
\* the sleep, or on to the read.
PausedBranch(p) == IF p THEN "loop" ELSE "read"

\* if bridge.paused { time.Sleep(100ms); continue }
routeTrafficPaused(r) ==
    /\ ~crashed /\ pc[r] = "paused?"
    /\ pc' = [pc EXCEPT ![r] = PausedBranch(paused)]
    /\ UNCHANGED <<bridgeVars, heapVars, call, sid, source, destination, inMsg, countVars>>

\* inMsg, err := source.ReadDeSoMessage(): blocks until the source leg holds a
\* message or its socket is closed (then err is not nil).
routeTrafficRead(r) ==
    /\ ~crashed /\ pc[r] = "read"
    /\ LET s == source[r] IN
       /\ legs[s].closed \/ legs[s].inbox # <<>>
       /\ IF legs[s].closed
          THEN /\ inMsg' = [inMsg EXCEPT ![r] = ErrMsg]
               /\ legs' = legs
          ELSE /\ inMsg' = [inMsg EXCEPT ![r] = Head(legs[s].inbox)]
               /\ legs' = [legs EXCEPT ![s].inbox = Tail(@),
                                       ![s].recvd = Append(@, Head(legs[s].inbox))]
    /\ pc' = [pc EXCEPT ![r] = "got"]
    /\ UNCHANGED <<bridgeVars, listeners, acceptors, call, sid, source, destination, countVars>>

\* After the read: if bridge.disabled { break }; if err != nil { Restart();
\* return }; then the switch on the message type.
routeTrafficDispatch(r) ==
    /\ ~crashed /\ pc[r] = "got"
    /\ IF disabled
       THEN /\ waitGroup' = waitGroup - 1
            /\ pc' = [pc EXCEPT ![r] = "exited"]
            /\ call' = call
       ELSE /\ waitGroup' = waitGroup
            /\ IF inMsg[r] = ErrMsg
               THEN /\ pc' = [pc EXCEPT ![r] = "d_check"]
                    /\ call' = [call EXCEPT ![r] = "Restart"]
               ELSE /\ pc' = [pc EXCEPT ![r] =
                                 IF IsPeerDiscovery(inMsg[r].kind) THEN "loop" ELSE "write"]
                    /\ call' = call
    /\ UNCHANGED <<connectionInboundA, connectionOutboundA, outboundListenerA,
                   connectionInboundB, connectionOutboundB, outboundListenerB,
                   paused, disabled, newPeerChan>>
    /\ UNCHANGED <<heapVars, sid, source, destination, inMsg, countVars>>

\* Faulty variant: a fresh message of the same type is written instead of inMsg.
ForwardedMessageRebuilt(r) == [inMsg[r] EXCEPT !.id = 0]

\* The argument of destination.WriteDeSoMessage: inMsg itself.
ForwardedMessage(r) == inMsg[r]

\* destination.WriteDeSoMessage(inMsg); an error calls Restart() and returns.
routeTrafficWrite(r) ==
    /\ ~crashed /\ pc[r] = "write"
    /\ LET d == destination[r] IN
       IF legs[d].closed
       THEN /\ pc' = [pc EXCEPT ![r] = "d_check"]
            /\ call' = [call EXCEPT ![r] = "Restart"]
            /\ legs' = legs
       ELSE /\ pc' = [pc EXCEPT ![r] = "loop"]
            /\ call' = call
            /\ legs' = [legs EXCEPT ![d].outbox = Append(@, ForwardedMessage(r))]
    /\ UNCHANGED <<bridgeVars, listeners, acceptors, sid, source, destination, inMsg, countVars>>

\* -------------------------------------------------------------- Disconnect
\* Faulty variant: Disconnect without the disabled check.
DisconnectNeverNoop == FALSE

\* if bridge.disabled { return }
DisconnectIsNoop == disabled

\* Where thread t goes when its Disconnect returns: on to Start inside a
\* Restart, back to the caller otherwise.
AfterDisconnect(t) == IF call[t] = "Restart" THEN "s_init" ELSE "idle"

DisconnectCheck(t) ==
    /\ ~crashed /\ pc[t] = "d_check"
    /\ IF DisconnectIsNoop
       THEN /\ pc' = [pc EXCEPT ![t] = AfterDisconnect(t)]
            /\ ret' = IF t = Driver /\ call[t] = "Disconnect"
                      THEN [op |-> "DisconnectNoop", sid |-> 0] ELSE ret
       ELSE /\ pc' = [pc EXCEPT ![t] = "d_set"]
            /\ ret' = ret
    /\ UNCHANGED <<bridgeVars, heapVars, call, sid, source, destination, inMsg,
                   starts, nrouters, sent, closes, pauses, crashed>>

\* The receivers of the six teardown calls, in the order of the code.
TeardownPeers == <<connectionInboundA, connectionInboundB,
                   connectionOutboundA, connectionOutboundB>>
TeardownListeners == <<outboundListenerA, outboundListenerB>>

\* The legs disconnected before the first nil receiver, which panics.
RECURSIVE UpToNil(_)
UpToNil(ids) ==
    IF ids = <<>> \/ Head(ids) = Nil THEN <<>>
    ELSE <<Head(ids)>> \o UpToNil(Tail(ids))

ListenerClose(ls, ids) ==
    [i \in 1..Len(ls) |-> IF \E k \in 1..Len(ids) : ids[k] = i
                          THEN [ls[i] EXCEPT !.closed = TRUE] ELSE ls[i]]

\* bridge.disabled = true, the four Peer.Disconnect() and the two
\* Listener.Close(); a nil leg or listener is a nil dereference.
DisconnectTeardown(t) ==
    /\ ~crashed /\ pc[t] = "d_set"
    /\ disabled' = TRUE
    /\ legs' = PeerDisconnectAll(legs, UpToNil(TeardownPeers))
    /\ IF Len(UpToNil(TeardownPeers)) = Len(TeardownPeers)
       THEN /\ listeners' = ListenerClose(listeners, UpToNil(TeardownListeners))
            /\ crashed' = (Len(UpToNil(TeardownListeners)) < Len(TeardownListeners))
       ELSE /\ listeners' = listeners
            /\ crashed' = TRUE
    /\ pc' = [pc EXCEPT ![t] = "d_wait"]
    /\ UNCHANGED <<connectionInboundA, connectionOutboundA, outboundListenerA,
                   connectionInboundB, connectionOutboundB, outboundListenerB,
                   paused, waitGroup, newPeerChan>>
    /\ UNCHANGED <<acceptors, call, sid, source, destination, inMsg,
                   starts, nrouters, sent, closes, pauses, ret>>

\* bridge.waitGroup.Wait(): blocks while the counter is not zero.
DisconnectWait(t) ==
    /\ ~crashed /\ pc[t] = "d_wait"
    /\ waitGroup = 0
    /\ pc' = [pc EXCEPT ![t] = AfterDisconnect(t)]
    /\ ret' = IF t = Driver /\ call[t] = "Disconnect"
              THEN [op |-> "DisconnectDone", sid |-> 0] ELSE ret
    /\ UNCHANGED <<bridgeVars, heapVars, call, sid, source, destination, inMsg,
                   starts, nrouters, sent, closes, pauses, crashed>>

\* ------------------------------------------------------------------- Start
\* Where thread t goes when its Start returns: the driver gets the error (a
\* Restart discards it); a router that ran Restart returns from routeTraffic
\* without reaching waitGroup.Done().
AfterStart(t) == IF t = Driver THEN "idle" ELSE "returned"

\* Faulty variant: Start swallows the error and reports success.
StartResultAlwaysNil(t, ok) ==
    IF t # Driver THEN ret
    ELSE IF call[t] = "Restart" THEN [op |-> "Restart", sid |-> sid[t]]
    ELSE [op |-> "StartOK", sid |-> sid[t]]

\* What the caller of Start gets back (Restart discards it).
StartResult(t, ok) ==
    IF t # Driver THEN ret
    ELSE IF call[t] = "Restart" THEN [op |-> "Restart", sid |-> sid[t]]
    ELSE [op |-> IF ok THEN "StartOK" ELSE "StartErr", sid |-> sid[t]]

\* bridge.disabled = false; the two net.Listen; the two createInboundConnection.
StartInit(t) ==
    /\ ~crashed /\ pc[t] = "s_init"
    /\ starts < MaxStarts
    /\ starts' = starts + 1
    /\ sid' = [sid EXCEPT ![t] = starts + 1]
    /\ disabled' = FALSE
    /\ listeners' = listeners \o <<[closed |-> FALSE, node |-> "A", sid |-> starts + 1],
                                   [closed |-> FALSE, node |-> "B", sid |-> starts + 1]>>
    /\ outboundListenerA' = Len(listeners) + 1
    /\ outboundListenerB' = Len(listeners) + 2
    /\ legs' = legs \o <<NewPeer("A", "in", starts + 1, Nil),
                         NewPeer("B", "in", starts + 1, Nil)>>
    /\ connectionInboundA' = Len(legs) + 1
    /\ connectionInboundB' = Len(legs) + 2
    /\ pc' = [pc EXCEPT ![t] = "s_negIA"]
    /\ UNCHANGED <<connectionOutboundA, connectionOutboundB, paused, waitGroup, newPeerChan>>
    /\ UNCHANGED <<acceptors, call, source, destination, inMsg,
                   nrouters, sent, closes, pauses, ret, crashed>>

\* The four startConnection calls of Start: the leg each negotiates, the node
\* each passes as otherNode, and the step that follows.
HandshakeSteps == {"s_negIA", "s_negIB", "s_negOA", "s_negOB"}

HandshakeLeg(step) ==
    CASE step = "s_negIA" -> connectionInboundA
      [] step = "s_negIB" -> connectionInboundB
      [] step = "s_negOA" -> connectionOutboundA
      [] step = "s_negOB" -> connectionOutboundB

OtherNode(step) ==
    CASE step = "s_negIA" -> "B"
      [] step = "s_negIB" -> "A"
      [] step = "s_negOA" -> "B"
      [] step = "s_negOB" -> "B"

AfterHandshake(step) ==
    CASE step = "s_negIA" -> "s_negIB"
      [] step = "s_negIB" -> "s_outA"
      [] step = "s_negOA" -> "s_negOB"
      [] step = "s_negOB" -> "s_launch"

\* What the node answers to a handshake message: a message of some kind with
\* a nonce, or a read error / timeout.
Replies ==
    {[kind |-> k, nonce |-> n] : k \in {"Version", "Verack"}, n \in Nonces}
    \cup {[kind |-> "Ping", nonce |-> 0], [kind |-> "error", nonce |-> 0]}

\* First ReadWithTimeout callback: a read error is returned; a message that is
\* not a *lib.MsgDeSoVersion returns `err`, which is nil at that point.
VersionReplyFails(r1) == r1.kind = "error"

\* Second ReadWithTimeout callback: read error, not a verack, or wrong nonce.
VerackReplyFails(r2, nonceSent) ==
    \/ r2.kind = "error"
    \/ r2.kind # "Verack"
    \/ r2.nonce # nonceSent

\* startConnection(connection, otherNode) on leg record `leg`, with the nonce
\* getVersionMessage draws and the node's two replies.
startConnection(leg, otherNode, nonce, r1, r2) ==
    LET l0 == [leg EXCEPT !.VersionNonceSent = nonce]
        l1 == [l0 EXCEPT !.versionOf = otherNode, !.reply1 = r1.kind,
                         !.VersionNonceReceived =
                             IF r1.kind = "Version" THEN r1.nonce ELSE @]
        l2 == [l1 EXCEPT !.reply2 = r2.kind,
                         !.goodNonce = (r2.kind = "Verack" /\ r2.nonce = nonce)]
    IN  IF leg.closed THEN l0                       \* WriteDeSoMessage fails
        ELSE IF VersionReplyFails(r1) THEN l1
        ELSE IF VerackReplyFails(r2, nonce) THEN l2
        ELSE [l2 EXCEPT !.VersionNegotiated = TRUE]

\* One `if err := bridge.startConnection(...); err != nil { return err }`.
StartHandshake(t, nonce, r1, r2) ==
    /\ ~crashed /\ pc[t] \in HandshakeSteps
    /\ LET step == pc[t]
           l == HandshakeLeg(step)
       IN  IF l = Nil
           THEN /\ crashed' = TRUE
                /\ UNCHANGED <<legs, pc, ret>>
           ELSE LET new == startConnection(legs[l], OtherNode(step), nonce, r1, r2)
                    ok == new.VersionNegotiated
                        /\ ~legs[l].closed /\ ~VersionReplyFails(r1)
                        /\ ~VerackReplyFails(r2, nonce)
                IN  /\ legs' = [legs EXCEPT ![l] = new]
                    /\ pc' = [pc EXCEPT ![t] = IF ok THEN AfterHandshake(step)
                                               ELSE AfterStart(t)]
                    /\ ret' = IF ok THEN ret ELSE StartResult(t, FALSE)
                    /\ crashed' = crashed
    /\ UNCHANGED <<bridgeVars, listeners, acceptors, call, sid, source, destination, inMsg,
                   starts, nrouters, sent, closes, pauses>>

\* createOutboundConnection(node, otherNode, ll): starts the accept goroutine
\* on the listener the bridge holds for the node and has the node dial it.
OutboundSteps == {"s_outA", "s_outB"}
OutboundNode(step) == IF step \in {"s_outA", "s_waitA"} THEN "A" ELSE "B"

createOutboundConnection(t) ==
    /\ ~crashed /\ pc[t] \in OutboundSteps
    /\ LET node == OutboundNode(pc[t])
           ll == IF node = "A" THEN outboundListenerA ELSE outboundListenerB
       IN  acceptors' = acceptors \cup {[lst |-> ll, node |-> node, sid |-> sid[t]]}
    /\ pc' = [pc EXCEPT ![t] = IF pc[t] = "s_outA" THEN "s_waitA" ELSE "s_waitB"]
    /\ UNCHANGED <<bridgeVars, legs, listeners, call, sid, source, destination, inMsg, countVars>>

\* The accept goroutine: ll.Accept() returns the node's connection, which is
\* wrapped in a Peer and offered on newPeerChan (the send blocks until taken).
Accept(a) ==
    /\ ~crashed /\ a \in acceptors
    /\ ~listeners[a.lst].closed
    /\ legs' = Append(legs, NewPeer(a.node, "out", a.sid, a.lst))
    /\ newPeerChan' = newPeerChan \cup {Len(legs) + 1}
    /\ acceptors' = acceptors \ {a}
    /\ UNCHANGED <<connectionInboundA, connectionOutboundA, outboundListenerA,
                   connectionInboundB, connectionOutboundB, outboundListenerB,
                   paused, disabled, waitGroup>>
    /\ UNCHANGED <<listeners, threadVars, countVars>>

\* ll.Accept() fails on a closed listener: the goroutine logs and exits.
AcceptFail(a) ==
    /\ ~crashed /\ a \in acceptors
    /\ listeners[a.lst].closed
    /\ acceptors' = acceptors \ {a}
    /\ UNCHANGED <<bridgeVars, legs, listeners, threadVars, countVars>>

WaitSteps == {"s_waitA", "s_waitB"}

\* waitForConnection: case peer := <-bridge.newPeerChan.
waitForConnection(t, peer) ==
    /\ ~crashed /\ pc[t] \in WaitSteps
    /\ peer \in newPeerChan
    /\ newPeerChan' = newPeerChan \ {peer}
    /\ IF pc[t] = "s_waitA"
       THEN connectionOutboundA' = peer /\ connectionOutboundB' = connectionOutboundB
       ELSE connectionOutboundB' = peer /\ connectionOutboundA' = connectionOutboundA
    /\ pc' = [pc EXCEPT ![t] = IF pc[t] = "s_waitA" THEN "s_outB" ELSE "s_negOA"]
    /\ UNCHANGED <<connectionInboundA, outboundListenerA, connectionInboundB,
                   outboundListenerB, paused, disabled, waitGroup>>
    /\ UNCHANGED <<heapVars, call, sid, source, destination, inMsg, countVars>>

\* waitForConnection: case <-timeoutTicker.C after 30 seconds with nothing
\* offered on the channel; Start assigns the nil peer and returns the error.
waitForConnectionTimeout(t) ==
    /\ ~crashed /\ pc[t] \in WaitSteps
    /\ newPeerChan = {}
    /\ IF pc[t] = "s_waitA"
       THEN connectionOutboundA' = Nil /\ connectionOutboundB' = connectionOutboundB
       ELSE connectionOutboundB' = Nil /\ connectionOutboundA' = connectionOutboundA
    /\ pc' = [pc EXCEPT ![t] = AfterStart(t)]
    /\ ret' = StartResult(t, FALSE)
    /\ UNCHANGED <<connectionInboundA, outboundListenerA, connectionInboundB,
                   outboundListenerB, paused, disabled, waitGroup, newPeerChan>>
    /\ UNCHANGED <<heapVars, call, sid, source, destination, inMsg,
                   starts, nrouters, sent, closes, pauses, crashed>>

\* The four `go bridge.routeTraffic(source, destination)` statements, in order.
RouterPaths ==
    <<<<connectionOutboundA, connectionInboundB>>,
      <<connectionInboundB, connectionOutboundA>>,
      <<connectionOutboundB, connectionInboundA>>,
      <<connectionInboundA, connectionOutboundB>>>>

\* The address printouts dereference all four legs, then the routers are
\* launched and Start returns nil.
StartRouters(t) ==
    /\ ~crashed /\ pc[t] = "s_launch"
    /\ IF Nil \in {connectionInboundA, connectionInboundB,
                   connectionOutboundA, connectionOutboundB}
       THEN /\ crashed' = TRUE
            /\ UNCHANGED <<pc, source, destination, nrouters, ret>>
       ELSE /\ crashed' = crashed
            /\ nrouters' = nrouters + RoutersPerStart
            /\ pc' = [x \in Threads |->
                        IF x = t THEN AfterStart(t)
                        ELSE IF x \in (nrouters + 1)..(nrouters + RoutersPerStart)
                             THEN "spawned" ELSE pc[x]]
            /\ source' = [x \in Threads |->
                        IF x \in (nrouters + 1)..(nrouters + RoutersPerStart)
                        THEN RouterPaths[x - nrouters][1] ELSE source[x]]
            /\ destination' = [x \in Threads |->
                        IF x \in (nrouters + 1)..(nrouters + RoutersPerStart)
                        THEN RouterPaths[x - nrouters][2] ELSE destination[x]]
            /\ ret' = StartResult(t, TRUE)
    /\ UNCHANGED <<bridgeVars, heapVars, call, sid, inMsg, starts, sent, closes, pauses>>

\* ------------------------------------------------------------- the driver
\* The test calls bridge.Start(), bridge.Disconnect(), bridge.Restart() and
\* assigns bridge.paused, one call at a time.
CallStart ==
    /\ ~crashed /\ pc[Driver] = "idle"
    /\ starts < MaxStarts
    /\ pc' = [pc EXCEPT ![Driver] = "s_init"]
    /\ call' = [call EXCEPT ![Driver] = "Start"]
    /\ UNCHANGED <<bridgeVars, heapVars, sid, source, destination, inMsg, countVars>>

CallDisconnect ==
    /\ ~crashed /\ pc[Driver] = "idle"
    /\ pc' = [pc EXCEPT ![Driver] = "d_check"]
    /\ call' = [call EXCEPT ![Driver] = "Disconnect"]
    /\ UNCHANGED <<bridgeVars, heapVars, sid, source, destination, inMsg, countVars>>

CallRestart ==
    /\ ~crashed /\ pc[Driver] = "idle"
    /\ starts < MaxStarts
    /\ pc' = [pc EXCEPT ![Driver] = "d_check"]
    /\ call' = [call EXCEPT ![Driver] = "Restart"]
    /\ UNCHANGED <<bridgeVars, heapVars, sid, source, destination, inMsg, countVars>>

\* bridge.paused = b
SetPaused(b) ==
    /\ ~crashed /\ pc[Driver] = "idle"
    /\ paused # b
    /\ b => pauses < MaxPauses
    /\ paused' = b
    /\ pauses' = IF b THEN pauses + 1 ELSE pauses
    /\ UNCHANGED <<connectionInboundA, connectionOutboundA, outboundListenerA,
                   connectionInboundB, connectionOutboundB, outboundListenerB,
                   disabled, waitGroup, newPeerChan>>
    /\ UNCHANGED <<heapVars, threadVars, starts, nrouters, sent, closes, ret, crashed>>

\* -------------------------------------------------------- the environment
\* The node behind leg l sends the bridge a message of kind k; the message
\* remembers whether the bridge was paused when it was sent.
Send(l, k) ==
    /\ ~crashed /\ sent < MaxMsgs
    /\ l \in LegIds /\ ~legs[l].closed /\ legs[l].VersionNegotiated
    /\ legs' = [legs EXCEPT ![l].inbox = Append(@, [kind |-> k, id |-> sent + 1,
                                                         paused |-> paused])]
    /\ sent' = sent + 1
    /\ UNCHANGED <<bridgeVars, listeners, acceptors, threadVars,
                   starts, nrouters, closes, pauses, ret, crashed>>

\* The socket under leg l is closed from outside the bridge.
CloseExternally(l) ==
    /\ ~crashed /\ closes < MaxCloses
    /\ l \in LegIds /\ ~legs[l].closed
    /\ legs' = PeerDisconnect(legs, l)
    /\ closes' = closes + 1
    /\ UNCHANGED <<bridgeVars, listeners, acceptors, threadVars,
                   starts, nrouters, sent, pauses, ret, crashed>>

\* ------------------------------------------------------- specifications
\* Router r has been launched by a `go bridge.routeTraffic(...)`.
Launched(r) == pc[r] # "none"

RouterStep(r) ==
    \/ routeTrafficAdd(r)
    \/ routeTrafficLoop(r)
    \/ routeTrafficPaused(r)
    \/ routeTrafficRead(r)
    \/ routeTrafficDispatch(r)
    \/ routeTrafficWrite(r)

DisconnectStep(t) ==
    \/ DisconnectCheck(t)
    \/ DisconnectTeardown(t)
    \/ DisconnectWait(t)

\* A handshake the node answers as the protocol says.
GoodVersion == [kind |-> "Version", nonce |-> MaxNonce]
GoodVerack == [kind |-> "Verack", nonce |-> MaxNonce]

Next ==
    \/ CallStart \/ CallDisconnect \/ CallRestart
    \/ \E b \in BOOLEAN : SetPaused(b)
    \/ \E t \in Threads :
         \/ DisconnectStep(t)
         \/ StartInit(t)
         \/ \E n \in Nonces, r1 \in Replies, r2 \in Replies : StartHandshake(t, n, r1, r2)
         \/ createOutboundConnection(t)
         \/ \E p \in newPeerChan : waitForConnection(t, p)
         \/ waitForConnectionTimeout(t)
         \/ StartRouters(t)
    \/ \E r \in Routers : RouterStep(r)
    \/ \E a \in acceptors : Accept(a) \/ AcceptFail(a)
    \/ \E l \in LegIds, k \in Kinds : Send(l, k)
    \/ \E l \in LegIds : CloseExternally(l)

Spec == Init /\ [][Next]_vars

\* The steps of Start that thread t runs when the nodes answer every
\* handshake as the protocol says and dial the listeners in time.
StartStep(t) ==
    \/ StartInit(t)
    \/ StartHandshake(t, GoodVerack.nonce, GoodVersion, GoodVerack)
    \/ createOutboundConnection(t)
    \/ \E p \in newPeerChan : waitForConnection(t, p)
    \/ StartRouters(t)

\* The driver starts the bridge once.
CallStartOnce == starts = 0 /\ CallStart

\* A started bridge routing traffic: the nodes send, the driver pauses and
\* resumes; nothing is disconnected and no socket fails.
NextRoute ==
    \/ CallStartOnce
    \/ \E b \in BOOLEAN : SetPaused(b)
    \/ StartStep(Driver)
    \/ \E r \in Routers : RouterStep(r)
    \/ \E a \in acceptors : Accept(a)
    \/ \E l \in LegIds, k \in Kinds : Send(l, k)

SpecRoute == Init /\ [][NextRoute]_vars

\* Pause and resume with ordinary traffic only (no Addr / GetAddr).
NextPause ==
    \/ CallStartOnce
    \/ \E b \in BOOLEAN : SetPaused(b)
    \/ StartStep(Driver)
    \/ \E r \in Routers : RouterStep(r)
    \/ \E a \in acceptors : Accept(a)
    \/ \E l \in LegIds : Send(l, "Ping")

\* The Go scheduler runs every goroutine that can take a step.
SpecPauseFair ==
    Init /\ [][NextPause]_vars /\ \A r \in 1..RoutersPerStart : WF_vars(RouterStep(r))

\* The steps of a router up to its blocking read.
IdleRouterStep(r) ==
    \/ routeTrafficAdd(r)
    \/ routeTrafficLoop(r)
    \/ routeTrafficPaused(r)

\* The steps of a router on legs that carry no traffic: it never has a
\* message to write.
QuietRouterStep(r) ==
    \/ IdleRouterStep(r)
    \/ routeTrafficRead(r)
    \/ routeTrafficDispatch(r)

\* Shutdown: the driver starts the bridge once and calls Disconnect, any
\* number of times and at any moment; the nodes send nothing.
NextStop ==
    \/ CallStartOnce \/ CallDisconnect
    \/ DisconnectStep(Driver) \/ StartStep(Driver)
    \/ \E r \in Routers : QuietRouterStep(r)
    \/ \E a \in acceptors : Accept(a)

SpecStop == Init /\ [][NextStop]_vars

\* The socket of a leg that a router reads or writes is closed from outside
\* while the bridge is live: Start has returned nil to the driver.
CloseLive(l) ==
    /\ pc[Driver] = "idle" /\ ret.op = "StartOK"
    /\ \E r \in Routers : Launched(r) /\ l \in {source[r], destination[r]}
    /\ CloseExternally(l)

\* The driver disconnects a bridge none of whose sockets has failed.
CallDisconnectIntact == closes = 0 /\ CallDisconnect

\* Self-healing: the driver starts the bridge once; then either it disconnects
\* the bridge, or a socket of a wired leg fails and the routers that see the
\* failure run Restart.  The nodes send nothing.
NextHeal ==
    \/ CallStartOnce \/ CallDisconnectIntact
    \/ \E t \in Threads : DisconnectStep(t) \/ StartStep(t)
    \/ \E r \in Routers : QuietRouterStep(r)
    \/ \E a \in acceptors : Accept(a)
    \/ \E l \in LegIds : CloseLive(l)

\* The Go scheduler runs every goroutine that can take a step, and the nodes
\* dial the listeners they are told to dial.
SpecHealFair ==
    /\ Init /\ [][NextHeal]_vars
    /\ \A t \in Threads : WF_vars(DisconnectStep(t) \/ StartStep(t))
    /\ \A r \in Routers : WF_vars(QuietRouterStep(r))
    /\ WF_vars(\E a \in acceptors : Accept(a))

\* The driver calls Start again only after a Start that failed.
CallStartRetry == nrouters = 0 /\ CallStart

\* Start against nodes that may answer a handshake with any message, fail a
\* read, or dial late or never.  No socket is closed and no traffic is sent, so
\* a launched router runs up to its read and blocks there.
FirstReplies ==
    {GoodVersion, [kind |-> "Ping", nonce |-> 0], [kind |-> "error", nonce |-> 0]}
SecondReplies ==
    {[kind |-> "Verack", nonce |-> n] : n \in Nonces}
    \cup {[kind |-> "Ping", nonce |-> 0], [kind |-> "error", nonce |-> 0]}

NextStart ==
    \/ CallStartRetry
    \/ StartInit(Driver)
    \/ \E r1 \in FirstReplies, r2 \in SecondReplies :
           StartHandshake(Driver, MaxNonce, r1, r2)
    \/ createOutboundConnection(Driver)
    \/ \E p \in newPeerChan : waitForConnection(Driver, p)
    \/ waitForConnectionTimeout(Driver)
    \/ StartRouters(Driver)
    \/ \E r \in Routers : IdleRouterStep(r)
    \/ \E a \in acceptors : Accept(a)

SpecStart == Init /\ [][NextStart]_vars

\* Start called again and again by the test, after a success as well as after
\* a failure, against the same nodes as above.  The goroutines launched by a
\* successful Start are not scheduled before the test's next call.
NextLaunch ==
    \/ CallStart
    \/ StartInit(Driver)
    \/ \E r1 \in FirstReplies, r2 \in SecondReplies :
           StartHandshake(Driver, MaxNonce, r1, r2)
    \/ createOutboundConnection(Driver)
    \/ \E p \in newPeerChan : waitForConnection(Driver, p)
    \/ waitForConnectionTimeout(Driver)
    \/ StartRouters(Driver)
    \/ \E a \in acceptors : Accept(a)

SpecLaunch == Init /\ [][NextLaunch]_vars

\* As above, and the test also calls Disconnect at any moment between its
\* calls of Start: on the fresh bridge, after a failed Start, after a success.
NextCleanup ==
    \/ NextLaunch
    \/ CallDisconnect
    \/ DisconnectStep(Driver)
    \/ \E a \in acceptors : AcceptFail(a)

SpecCleanup == Init /\ [][NextCleanup]_vars

\* The bridge is live for the test: its Start has returned nil and it has made
\* no call since.
DriverSeesLive == pc[Driver] = "idle" /\ ret.op = "StartOK"

\* The four routers of the first Start are all inside their loops.
RoutersInLoop ==
    \A r \in 1..RoutersPerStart : pc[r] \in {"loop", "paused?", "read", "got", "write"}

\* The test disconnects a live bridge whose four routers are running.
CallDisconnectLive == DriverSeesLive /\ RoutersInLoop /\ CallDisconnect

\* Node A sends one ordinary message on the connection the bridge dialed.
SendLive(l) ==
    /\ DriverSeesLive /\ RoutersInLoop /\ sent = 0
    /\ l = connectionInboundA
    /\ Send(l, "Ping")

\* Shutdown of a bridge that carries traffic: the test starts the bridge once,
\* a node sends a message, and the test calls Disconnect; a router whose read
\* or write fails runs Restart.
NextDrain ==
    \/ CallStartOnce \/ CallDisconnectLive
    \/ \E t \in Threads : DisconnectStep(t) \/ StartStep(t)
    \/ \E r \in Routers : RouterStep(r)
    \/ \E a \in acceptors : Accept(a)
    \/ \E l \in LegIds : SendLive(l)
    \/ \E r \in Routers : waitForConnectionTimeout(r)
    \/ \E a \in acceptors : AcceptFail(a)

\* The Go scheduler runs every goroutine that can take a step, the nodes dial
\* the listeners they are told to dial, and the 30 s ticker of a wait that
\* gets no peer fires.
SpecDrainFair ==
    /\ Init /\ [][NextDrain]_vars
    /\ \A t \in Threads : WF_vars(DisconnectStep(t) \/ StartStep(t))
    /\ \A r \in Routers : WF_vars(RouterStep(r)) /\ WF_vars(waitForConnectionTimeout(r))
    /\ WF_vars(\E a \in acceptors : Accept(a) \/ AcceptFail(a))

\* ------------------------------------------------------------ properties
\* A sequence with the Addr and GetAddr messages removed.
RECURSIVE WithoutDiscovery(_)
WithoutDiscovery(s) ==
    IF s = <<>> THEN <<>>
    ELSE IF Head(s).kind \in {"Addr", "GetAddr"} THEN WithoutDiscovery(Tail(s))
         ELSE <<Head(s)>> \o WithoutDiscovery(Tail(s))

\* C4: on every directed path, what has been written to the destination leg is
\* a prefix of what has been read from the source leg with Addr and GetAddr
\* removed: same messages, same order, nothing added.
C4_OrderAndContent ==
    \A r \in Routers : Launched(r) =>
        IsPrefix(legs[destination[r]].outbox, WithoutDiscovery(legs[source[r]].recvd))

\* C4 witness: two messages forwarded on one path, in the order they were sent.
C4_Witness ==
    \E r \in Routers : Launched(r)
        /\ Len(legs[destination[r]].outbox) = 2
        /\ legs[destination[r]].outbox[1].id < legs[destination[r]].outbox[2].id

\* No Addr or GetAddr message is on a leg's written side or held for a write.
C5_NoDiscoveryWritten ==
    /\ \A l \in LegIds : \A i \in 1..Len(legs[l].outbox) :
           legs[l].outbox[i].kind \notin {"Addr", "GetAddr"}
    /\ \A r \in Routers : pc[r] = "write" => inMsg[r].kind \notin {"Addr", "GetAddr"}

\* What a router does with the message it read, on a bridge it does not see
\* disabled: Addr / GetAddr back to the loop with nothing written, anything
\* else to the write, which appends that message to the destination leg.
C5_DispatchStep ==
    \A r \in Routers :
      /\ (pc[r] = "got" /\ pc'[r] # "got" /\ ~disabled /\ inMsg[r] # ErrMsg) =>
            IF inMsg[r].kind \in {"Addr", "GetAddr"}
            THEN pc'[r] = "loop" /\ legs' = legs /\ waitGroup' = waitGroup
            ELSE pc'[r] = "write"
      /\ (pc[r] = "write" /\ pc'[r] # "write" /\ ~legs[destination[r]].closed) =>
            /\ pc'[r] = "loop"
            /\ legs'[destination[r]].outbox =
                   Append(legs[destination[r]].outbox, inMsg[r])

C6_NoTrafficWhilePaused ==
    [][paused => \A r \in Routers :
          /\ (pc[r] = "read" => pc'[r] = "read")
          /\ (Launched(r) => legs'[destination[r]].outbox = legs[destination[r]].outbox)
      ]_vars

\* Path r has delivered, in order, every message sent on its source so far.
Delivered(r) ==
    /\ Launched(r)
    /\ legs[destination[r]].outbox = legs[source[r]].recvd \o legs[source[r]].inbox

\* C7: once the bridge is not paused, every path eventually has delivered, in
\* order and without loss, every message sent on it so far (the ones sent while
\* it was paused included), unless the bridge is paused again first.
C7_PauseLosesNothing ==
    \A r \in 1..RoutersPerStart :
        (Launched(r) /\ ~paused) ~> (paused \/ Delivered(r))

\* C7 witness: after a resume, a path has delivered two messages that were
\* sent while the bridge was paused.
C7_Witness ==
    \E r \in Routers : Launched(r) /\ ~paused
        /\ Len(legs[destination[r]].outbox) = 2
        /\ \A i \in 1..2 : legs[destination[r]].outbox[i].paused
        /\ Delivered(r)

\* ---- lifecycle
Exited(r) == pc[r] \in {"exited", "returned"}
Running(r) == Launched(r) /\ ~Exited(r)
BridgeLegs == <<connectionInboundA, connectionOutboundA, connectionInboundB, connectionOutboundB>>

\* The bridge is live on legs created by Start invocation s: not disabled, the
\* four legs are legs of s, open and negotiated, and four routers run on them.
LiveOn(s) ==
    /\ ~disabled
    /\ \A i \in 1..4 : /\ BridgeLegs[i] # Nil
                       /\ legs[BridgeLegs[i]].sid = s
                       /\ ~legs[BridgeLegs[i]].closed
                       /\ legs[BridgeLegs[i]].VersionNegotiated
    /\ Cardinality({r \in Routers : Running(r) /\ pc[r] \in {"loop", "paused?", "read", "got", "write"}
                                     /\ legs[source[r]].sid = s}) = RoutersPerStart

\* C1 as claimed: whenever a router has seen its read fail and called Restart,
\* the bridge is eventually live again on legs newer than the failed one (the
\* nodes answer every handshake of the induced Start).
C1_SelfHealing ==
    \A r \in Routers :
        (pc[r] = "d_check" /\ call[r] = "Restart")
            ~> (\E s \in 1..MaxStarts : Launched(r) /\ s > legs[source[r]].sid /\ LiveOn(s))

\* C2 as claimed: when a Disconnect that passed the disabled check returns,
\* every router launched so far has left routeTraffic.
C2_RoutersGoneAtReturn ==
    [][\A t \in Threads :
          (pc[t] = "d_wait" /\ pc'[t] # "d_wait") =>
              \A r \in Routers : Launched(r) => Exited(r)]_vars

\* C8: a Disconnect that finds disabled already true returns at once: it
\* changes no field of the bridge, no leg, no listener and not the wait group,
\* and it does not go on to the teardown or to the Wait.
C8_DisconnectIdempotent ==
    [][\A t \in Threads :
          (pc[t] = "d_check" /\ pc'[t] # "d_check" /\ disabled) =>
              /\ UNCHANGED <<bridgeVars, heapVars>>
              /\ pc'[t] = AfterDisconnect(t)
              /\ ~crashed']_vars

\* C8 witness: the driver's Disconnect returned as a no-op on a bridge that an
\* earlier Disconnect had torn down.
C8_Witness ==
    /\ ret.op = "DisconnectNoop" /\ disabled
    /\ connectionInboundA # Nil /\ legs[connectionInboundA].closed

\* ---- Start and the handshake
\* C3 as claimed: when Start has returned nil, the four legs of the bridge are
\* legs created by that Start invocation, all negotiated, disabled is false
\* and exactly four routers were launched, one per directed path.
C3_StartPostcondition ==
    (pc[Driver] = "idle" /\ ret.op = "StartOK") =>
        /\ ~disabled
        /\ \A i \in 1..4 : /\ BridgeLegs[i] # Nil
                           /\ legs[BridgeLegs[i]].sid = ret.sid
                           /\ legs[BridgeLegs[i]].VersionNegotiated
        /\ nrouters = RoutersPerStart
        /\ \A i \in 1..RoutersPerStart :
               <<source[i], destination[i]>> = RouterPaths[i]

\* C9 as claimed: a leg is negotiated only if it received a Version message
\* and then a Verack whose nonce is the nonce sent.
C9_NegotiatedOnlyAfterExchange ==
    \A l \in LegIds : legs[l].VersionNegotiated =>
        /\ legs[l].reply1 = "Version"
        /\ legs[l].reply2 = "Verack"
        /\ legs[l].goodNonce

\* C10 as claimed: the version message sent on a leg connected to node X is
\* synthesized from the other node.
C10_ImpersonatesOtherNode ==
    \A l \in LegIds : legs[l].versionOf # "none" => legs[l].versionOf # legs[l].node

\* ---- failed Start
\* The routers launched by Start invocation s: every directed path has one
\* inbound leg, and inbound legs are created by the invocation that wires them.
LaunchedBy(s) ==
    {r \in Routers : Launched(r) /\ \E l \in {source[r], destination[r]} :
                         legs[l].role = "in" /\ legs[l].sid = s}

\* A Start invocation that has returned an error, or is still running, has
\* launched no router.
C11_NoRoutersOfFailedStart ==
    /\ (pc[Driver] = "idle" /\ ret.op = "StartErr") => LaunchedBy(ret.sid) = {}
    /\ pc[Driver] \in HandshakeSteps \cup OutboundSteps \cup WaitSteps \cup {"s_launch"}
           => LaunchedBy(sid[Driver]) = {}

\* A wait that ends with nothing taken from the handoff channel makes Start
\* return an error, and a step in which Start returns an error launches nothing.
C11_ErrorStep ==
    /\ (pc[Driver] \in WaitSteps /\ pc'[Driver] # pc[Driver] /\ newPeerChan' = newPeerChan)
           => pc'[Driver] = "idle" /\ ret'.op = "StartErr" /\ ret'.sid = sid[Driver]
    /\ (pc[Driver] # "idle" /\ pc'[Driver] = "idle" /\ ret'.op = "StartErr")
           => nrouters' = nrouters /\ \A r \in Routers : pc'[r] = pc[r]

\* C11: if the handoff channel delivers no leg before the wait expires, Start
\* returns an error; and a Start invocation that returns an error (timeout or
\* failed negotiation on any leg) has launched zero routers.
C11_FailedStartLaunchesNothing ==
    []C11_NoRoutersOfFailedStart /\ [][C11_ErrorStep]_vars

\* C11 witness: after a Start that succeeded and launched its routers, a
\* second Start timed out waiting for node A and returned an error.
C11_Witness ==
    /\ pc[Driver] = "idle" /\ ret.op = "StartErr" /\ ret.sid = 2
    /\ connectionOutboundA = Nil /\ legs[connectionInboundB].VersionNegotiated
    /\ nrouters = RoutersPerStart /\ LaunchedBy(1) # {}

\* ---- pause as a gate
\* With pause and resume as the only calls after Start, the bridge is never
\* disabled and no router has left its loop or is inside Restart / Disconnect.
C12_RoutersStayInLoop ==
    /\ ~disabled
    /\ \A r \in Routers : pc[r] \in {"none", "spawned", "loop", "paused?", "read", "got", "write"}
    /\ \A r \in Routers : call[r] = "none"

\* A step that sets or clears paused changes nothing else of the bridge and
\* moves no router; a router that tests paused stays in its loop and leaves
\* the wait group alone.
C12_PauseStep ==
    /\ paused' # paused =>
          /\ UNCHANGED <<connectionInboundA, connectionOutboundA, outboundListenerA,
                         connectionInboundB, connectionOutboundB, outboundListenerB,
                         disabled, waitGroup, newPeerChan, heapVars>>
          /\ \A r \in Routers : pc'[r] = pc[r] /\ call'[r] = call[r]
    /\ \A r \in Routers :
          (pc[r] = "paused?" /\ pc'[r] # "paused?") =>
              /\ pc'[r] = IF paused THEN "loop" ELSE "read"
              /\ UNCHANGED <<bridgeVars, heapVars>>

\* C12: setting or clearing paused leaves disabled, the four leg references,
\* both listeners and the wait-group counter unchanged, makes no router exit
\* and makes none call Restart or Disconnect.
C12_PauseIsOnlyAGate ==
    []C12_RoutersStayInLoop /\ [][C12_PauseStep]_vars

\* C12 witness: the bridge was paused and resumed, the four routers are back
\* at their reads and a message sent during the pause has been forwarded.
C12_Witness ==
    /\ ~paused /\ pauses = 1 /\ ~disabled /\ waitGroup = RoutersPerStart
    /\ \A r \in 1..RoutersPerStart : pc[r] = "read"
    /\ \E l \in LegIds : legs[l].outbox # <<>> /\ legs[l].outbox[1].paused

\* ---- shutdown
\* C13 as claimed: a Disconnect called by the test on a live bridge whose four
\* routers are running eventually returns.
C13_DisconnectReturns ==
    (pc[Driver] = "d_check" /\ call[Driver] = "Disconnect") ~> (pc[Driver] = "idle")

\* C14 as claimed: at most four routers are running at any time, and exactly
\* four while the bridge is live for the test (its Start returned nil and it
\* has not called Disconnect since).
C14_RouterPopulation ==
    /\ Cardinality({r \in Routers : Running(r)}) <= RoutersPerStart
    /\ DriverSeesLive => Cardinality({r \in Routers : Running(r)}) = RoutersPerStart

\* C15 as claimed: the wait-group counter is the number of routers that have
\* done their Add and have not left the routing loop; in particular it is zero
\* once every router has left its loop.
C15_WaitGroupBalanced ==
    waitGroup = Cardinality({r \in Routers :
                                pc[r] \in {"loop", "paused?", "read", "got", "write"}})

\* C16 as claimed: while disabled is true (a Disconnect has set it and nobody
\* has called Start since) no router calls Restart because a read or a
\* forwarding write failed.
C16_NoRestartAfterDisconnect ==
    [][\A r \in Routers :
          (pc[r] \in {"got", "write"} /\ pc'[r] = "d_check") => ~disabled]_vars

\* ---- handoff
\* C17 as claimed: the leg that a waitForConnection of Start takes from the
\* handoff channel was accepted on the listener the bridge holds for that
\* node, opened by the same Start invocation, and was dialed by that node.
C17_HandoffMatchesRequest ==
    [][\A t \in Threads :
          /\ (pc[t] = "s_waitA" /\ pc'[t] = "s_outB") =>
                 /\ legs[connectionOutboundA'].lst = outboundListenerA
                 /\ legs[connectionOutboundA'].sid = sid[t]
                 /\ legs[connectionOutboundA'].node = "A"
          /\ (pc[t] = "s_waitB" /\ pc'[t] = "s_negOA") =>
                 /\ legs[connectionOutboundB'].lst = outboundListenerB
                 /\ legs[connectionOutboundB'].sid = sid[t]
                 /\ legs[connectionOutboundB'].node = "B"]_vars

\* ---- teardown of what exists
\* C18 as claimed: when a Disconnect has passed its disabled check, the four
\* leg references and the two listener references are all assigned, and the
\* teardown does not dereference nil.
C18_TeardownOnlyWhatExists ==
    /\ \A t \in Threads : pc[t] = "d_set" =>
           Nil \notin {connectionInboundA, connectionInboundB, connectionOutboundA,
                       connectionOutboundB, outboundListenerA, outboundListenerB}
    /\ ~crashed

====
